---- MODULE Spec2Model ----
(***************************************************************************)
(* DietAI memory lifecycle: the MemoryManager of memory_manager.py         *)
(* (message buffer, counter, short-term and long-term store files) driven  *)
(* by the conversation loop of main.py (DietAI.__init__, chat, run).       *)
(*                                                                         *)
(* Text is modelled as the sequence of lines str.split('\n') gives: the    *)
(* empty string is <<"">>, "a\n" is <<"a", "">>.  A file that does not     *)
(* exist is the empty sequence <<>> (no text splits to it).                *)
(***************************************************************************)
EXTENDS Integers, Sequences, FiniteSets, TLC

VARIABLES
    pc,                 \* position of the process: "off" (never started), "input",
                        \* "check", "exited", "interrupted", "crashed"; "api"
                        \* when the MemoryManager is driven directly
    run,                \* number of process runs started so far
    short_term_limit,   \* config [memory] short_term_limit
    long_term_sessions, \* config [memory] long_term_sessions
    message_buffer,     \* MemoryManager.message_buffer
    message_counter,    \* MemoryManager.message_counter
    short_term_file,    \* memory/short_term_memory.txt
    long_term_file,     \* memory/long_term_memory.txt
    long_term_context,  \* DietAI.long_term_context
    history,            \* text printed by /history in the last step
    llm_op,             \* inference call made by the last step
    llm_batch,          \* messages_to_summarize of the last summarization
    error,              \* exception raised in the last step:
                        \* "none", "inference", "io"
    command,            \* what the last step of the loop handled: "start",
                        \* "chat", "/exit", "/clear", "/history", "interrupt"
    short_term_context, \* get_short_term_memory_context() of the last prompt
    session_entries,    \* long-term entries appended since the process started
    summarize_failed    \* a summarization of a chat turn has raised since the
                        \* process started

vars == <<pc, run, short_term_limit, long_term_sessions, message_buffer,
          message_counter, short_term_file, long_term_file, long_term_context,
          history, llm_op, llm_batch, error, command, short_term_context,
          session_entries, summarize_failed>>

-----------------------------------------------------------------------------
(* Bounds of the model *)

MaxLimit == 2
MaxCap == 1
MaxRuns == 2
MaxEntries == 2

\* turns the buffer is let grow to: one more than the largest threshold
MaxTurns == MaxLimit + 1

-----------------------------------------------------------------------------
(* Text helpers *)

NoFile == <<>>
EmptyText == <<"">>

Exists(file) == file # NoFile

Front(s) == SubSeq(s, 1, Len(s) - 1)
Last(s) == s[Len(s)]

\* a + b on strings, in split('\n') form
Concat(a, b) == Front(a) \o <<Last(a) \o Head(b)>> \o Tail(b)

IsBlank(line) == line = ""

RECURSIVE DropLeadingBlank(_)
DropLeadingBlank(text) ==
    IF text = <<>> THEN <<>>
    ELSE IF IsBlank(Head(text)) THEN DropLeadingBlank(Tail(text))
    ELSE text

RECURSIVE DropTrailingBlank(_)
DropTrailingBlank(text) ==
    IF text = <<>> THEN <<>>
    ELSE IF IsBlank(Last(text)) THEN DropTrailingBlank(Front(text))
    ELSE text

\* str.strip(): whitespace removed at both ends; <<"">> when nothing is left
Strip(text) ==
    LET t == DropTrailingBlank(DropLeadingBlank(text))
    IN  IF t = <<>> THEN EmptyText ELSE t

\* seq[-n:] of Python for n >= 0 (seq[-0:] is seq[0:], the whole sequence)
LastSlice(seq, n) ==
    IF n = 0 \/ n >= Len(seq) THEN seq
    ELSE SubSeq(seq, Len(seq) - n + 1, Len(seq))

-----------------------------------------------------------------------------
(* Lines the program writes *)

ShortTermHeader ==
    << "# Short-term memory for current session",
       "# Stores up to 10 message pairs before summarization",
       "", "" >>

LongTermHeader ==
    << "# Long-term memory for previous sessions",
       "# Stores summaries of past conversations",
       "", "" >>

Dash50 == "--------------------------------------------------"
Dash60 == "------------------------------------------------------------"
Equals60 == "============================================================"

\* datetime.now(): the model's clock stands still; no operation reads a
\* timestamp back
SummaryMarker == "--- Summary (2025-01-01 12:00:00) ---"
SessionMarker == "=== Session Summary (2025-01-01) - 2025-01-01 12:00:00 ==="

\* Texts the inference engine may return
ShortSummaries == { <<"meals">>, <<"">> }
LongSummaries == { <<"trends">> }

\* line.startswith("#")
StartsWithHash(line) ==
    line \in { ShortTermHeader[1], ShortTermHeader[2],
               LongTermHeader[1], LongTermHeader[2] }

\* line.startswith('===') and 'Session Summary' in line
IsSessionMarker(line) == line = SessionMarker

\* the marker line of a short-term entry
IsSummaryMarker(line) == line = SummaryMarker

\* line.startswith('=' * 60)
IsClosingLine(line) == line = Equals60

NoMeaningfulContent_BlankOnly(content) == Strip(content) = EmptyText

\* not content.strip() or content.strip().startswith("#")
NoMeaningfulContent(content) ==
    \/ Strip(content) = EmptyText
    \/ StartsWithHash(Head(Strip(content)))

-----------------------------------------------------------------------------
(* MemoryManager *)

Message(role, content) == [role |-> role, content |-> content]

_ensure_short_term(file) == IF Exists(file) THEN file ELSE ShortTermHeader
_ensure_long_term_Rewrites(file) == LongTermHeader

_ensure_long_term(file) == IF Exists(file) THEN file ELSE LongTermHeader

add_message_buffer(buffer, role, content) == Append(buffer, Message(role, content))

add_message_counter_EveryRole(counter, role) == counter + 1

add_message_counter(counter, role) == IF role = "user" THEN counter + 1 ELSE counter

should_summarize_Strict(counter, limit) == counter > limit

should_summarize(counter, limit) == counter >= limit

messages_to_summarize(buffer, limit) == LastSlice(buffer, limit)

\* the three writes of one short-term entry
ShortTermEntry(summary) == <<"", SummaryMarker>> \o summary \o <<Dash50, "">>

\* the three writes of one long-term entry
LongTermEntry(summary) == <<"", SessionMarker>> \o summary \o <<Equals60, "">>

Outcome(buffer, counter, st, lt, raised, op, batch) ==
    [ buffer |-> buffer, counter |-> counter, st |-> st, lt |-> lt,
      raised |-> raised, op |-> op, batch |-> batch ]

summarize_short_term_memory_KeepsCounter(buffer, counter, st, lt, limit) ==
    IF buffer = <<>>
    THEN { Outcome(buffer, counter, st, lt, "none", "none", <<>>) }
    ELSE { Outcome(<<>>, counter, Concat(st, ShortTermEntry(s)), lt,
                   "none", "summarize", messages_to_summarize(buffer, limit))
             : s \in ShortSummaries }

summarize_short_term_memory_ClearsOnIoError(buffer, counter, st, lt, limit) ==
    IF buffer = <<>>
    THEN { Outcome(buffer, counter, st, lt, "none", "none", <<>>) }
    ELSE { Outcome(<<>>, 0, st, lt, "io", "summarize",
                   messages_to_summarize(buffer, limit)) }

summarize_short_term_memory_KeepsBuffer(buffer, counter, st, lt, limit) ==
    IF buffer = <<>>
    THEN { Outcome(buffer, counter, st, lt, "none", "none", <<>>) }
    ELSE { Outcome(buffer, 0, Concat(st, ShortTermEntry(s)), lt,
                   "none", "summarize", messages_to_summarize(buffer, limit))
             : s \in ShortSummaries }

\* summarize_short_term_memory: every way the call can end
summarize_short_term_memory(buffer, counter, st, lt, limit) ==
    IF buffer = <<>>
    THEN { Outcome(buffer, counter, st, lt, "none", "none", <<>>) }
    ELSE LET batch == messages_to_summarize(buffer, limit)
         IN  \* create_chat_completion raises
             { Outcome(buffer, counter, st, lt, "inference", "summarize", batch) }
             \cup
             \* open(short_term_file, 'a') raises
             { Outcome(buffer, counter, st, lt, "io", "summarize", batch) }
             \cup
             { Outcome(<<>>, 0, Concat(st, ShortTermEntry(s)), lt,
                       "none", "summarize", batch) : s \in ShortSummaries }

save_to_long_term_memory_DrainsBuffer(buffer, counter, st, lt) ==
    IF buffer = <<>>
    THEN { Outcome(buffer, counter, st, lt, "none", "none", <<>>) }
    ELSE { Outcome(<<>>, 0, Concat(st, ShortTermEntry(s)), lt,
                   "none", "summarize", buffer) : s \in ShortSummaries }

\* save_to_long_term_memory: every way the call can end
save_to_long_term_memory(buffer, counter, st, lt) ==
    IF ~Exists(st) \/ NoMeaningfulContent(st)
    THEN { Outcome(buffer, counter, st, lt, "none", "none", <<>>) }
    ELSE \* create_chat_completion raises
         { Outcome(buffer, counter, st, lt, "inference", "consolidate", <<>>) }
         \cup
         \* open(long_term_file, 'a') raises
         { Outcome(buffer, counter, st, lt, "io", "consolidate", <<>>) }
         \cup
         \* the entry is appended, then open(short_term_file, 'w') raises
         { Outcome(buffer, counter, st, Concat(lt, LongTermEntry(s)),
                   "io", "consolidate", <<>>) : s \in LongSummaries }
         \cup
         { Outcome(<<>>, 0, ShortTermHeader, Concat(lt, LongTermEntry(s)),
                   "none", "consolidate", <<>>) : s \in LongSummaries }

\* the loop of load_long_term_memory_context over content.split('\n')
RECURSIVE ParseSessions(_, _, _, _)
ParseSessions(lines, sessions, current_session, in_session) ==
    IF lines = <<>>
    THEN sessions
    ELSE LET line == Head(lines)
         IN  IF IsSessionMarker(line)
             THEN ParseSessions(Tail(lines),
                      IF current_session # <<>> /\ in_session
                      THEN Append(sessions, current_session) ELSE sessions,
                      <<line>>, TRUE)
             ELSE IF in_session
             THEN IF IsClosingLine(line)
                  THEN ParseSessions(Tail(lines),
                           Append(sessions, Append(current_session, line)),
                           <<>>, FALSE)
                  ELSE ParseSessions(Tail(lines), sessions,
                           Append(current_session, line), TRUE)
             ELSE ParseSessions(Tail(lines), sessions, current_session, in_session)

recent_sessions(content, cap) ==
    LET sessions == ParseSessions(content, <<>>, <<>>, FALSE)
    IN  IF sessions # <<>> THEN LastSlice(sessions, cap) ELSE <<>>

\* context += f"{session}\n\n" for each session
RECURSIVE FormatSessions(_)
FormatSessions(sessions) ==
    IF sessions = <<>> THEN EmptyText
    ELSE Concat(Head(sessions) \o <<"", "">>, FormatSessions(Tail(sessions)))

FormatContext(sessions) ==
    Concat(<<"Previous Session Summaries:", Dash60, "">>, FormatSessions(sessions))

load_long_term_memory_context(file, cap) ==
    IF ~Exists(file) THEN EmptyText
    ELSE IF NoMeaningfulContent(file) THEN EmptyText
    ELSE LET recent == recent_sessions(file, cap)
         IN  IF recent = <<>> THEN EmptyText ELSE FormatContext(recent)

clear_short_term_memory_KeepsFile(buffer, counter, st, lt) ==
    { Outcome(<<>>, 0, st, lt, "none", "none", <<>>) }

\* clear_short_term_memory: the buffer is reset before the file is opened
clear_short_term_memory(buffer, counter, st, lt) ==
    { Outcome(<<>>, 0, ShortTermHeader, lt, "none", "none", <<>>),
      Outcome(<<>>, 0, st, lt, "io", "none", <<>>) }

get_long_term_history_OneSentinel(file) ==
    IF ~Exists(file) \/ NoMeaningfulContent(file)
    THEN <<"No previous session summaries found.">>
    ELSE file

get_long_term_history(file) ==
    IF ~Exists(file) THEN <<"No long-term memory found.">>
    ELSE IF NoMeaningfulContent(file) THEN <<"No previous session summaries found.">>
    ELSE file

\* context += f"{role_label}: {msg['content']}\n" for each message
RECURSIVE FormatMessages(_)
FormatMessages(buffer) ==
    IF buffer = <<>> THEN EmptyText
    ELSE LET msg == Head(buffer)
             role_label == IF msg.role = "user" THEN "User" ELSE "Assistant"
         IN  Concat(<<role_label \o ": " \o msg.content, "">>,
                    FormatMessages(Tail(buffer)))

\* content and not content.strip().startswith("#")
HoldsSummaries(content) ==
    /\ content # EmptyText
    /\ ~StartsWithHash(Head(Strip(content)))

get_short_term_memory_context(buffer, file) ==
    IF buffer = <<>>
    THEN IF Exists(file) /\ HoldsSummaries(file) THEN file ELSE EmptyText
    ELSE Concat(<<"Current Session Messages:", "">>, FormatMessages(buffer))

-----------------------------------------------------------------------------
(* Measures of the state *)

\* number of session marker lines of a long-term text
RECURSIVE CountMarkers(_)
CountMarkers(lines) ==
    IF lines = <<>> THEN 0
    ELSE (IF IsSessionMarker(Head(lines)) THEN 1 ELSE 0) + CountMarkers(Tail(lines))

\* number of summary marker lines of a short-term file
RECURSIVE CountSummaries(_)
CountSummaries(lines) ==
    IF lines = <<>> THEN 0
    ELSE (IF IsSummaryMarker(Head(lines)) THEN 1 ELSE 0) + CountSummaries(Tail(lines))

\* number of messages of a buffer whose role is user
RECURSIVE UserCount(_)
UserCount(buffer) ==
    IF buffer = <<>> THEN 0
    ELSE (IF Head(buffer).role = "user" THEN 1 ELSE 0) + UserCount(Tail(buffer))

\* both files are kept to MaxEntries entries
WithinBounds(o) ==
    /\ CountMarkers(o.lt) <= MaxEntries
    /\ CountSummaries(o.st) <= MaxEntries

-----------------------------------------------------------------------------
(* The process: DietAI.__init__, DietAI.run, DietAI.chat *)

\* the memory directory before the first run: no file, or a file left empty
InitialFiles == { NoFile, EmptyText }

Init ==
    /\ pc = "off"
    /\ run = 0
    /\ short_term_limit \in 1..MaxLimit
    /\ long_term_sessions \in 0..MaxCap
    /\ message_buffer = <<>>
    /\ message_counter = 0
    /\ short_term_file \in InitialFiles
    /\ long_term_file \in InitialFiles
    /\ long_term_context = EmptyText
    /\ history = EmptyText
    /\ llm_op = "none"
    /\ llm_batch = <<>>
    /\ error = "none"
    /\ command = "none"
    /\ short_term_context = EmptyText
    /\ session_entries = 0
    /\ summarize_failed = FALSE

Apply(o) ==
    /\ message_buffer' = o.buffer
    /\ message_counter' = o.counter
    /\ short_term_file' = o.st
    /\ long_term_file' = o.lt
    /\ llm_op' = o.op
    /\ llm_batch' = o.batch
    /\ error' = o.raised
    /\ session_entries' =
           session_entries + CountMarkers(o.lt) - CountMarkers(long_term_file)

\* DietAI(): MemoryManager(config_path), then load_long_term_memory_context()
Startup ==
    /\ pc \in {"off", "exited", "interrupted", "crashed"}
    /\ run < MaxRuns
    /\ run' = run + 1
    /\ message_buffer' = <<>>
    /\ message_counter' = 0
    /\ short_term_file' = _ensure_short_term(short_term_file)
    /\ long_term_file' = _ensure_long_term(long_term_file)
    /\ long_term_context' =
           load_long_term_memory_context(long_term_file', long_term_sessions)
    /\ history' = EmptyText
    /\ llm_op' = "none"
    /\ llm_batch' = <<>>
    /\ error' = "none"
    /\ command' = "start"
    /\ short_term_context' = EmptyText
    /\ session_entries' = 0
    /\ summarize_failed' = FALSE
    /\ pc' = "input"
    /\ UNCHANGED <<short_term_limit, long_term_sessions>>

ChatFails_RecordsUser ==
    /\ pc = "input"
    /\ Len(message_buffer) < 2 * MaxTurns
    /\ message_buffer' = add_message_buffer(message_buffer, "user", "q")
    /\ message_counter' = add_message_counter(message_counter, "user")
    /\ history' = EmptyText
    /\ llm_op' = "chat"
    /\ llm_batch' = <<>>
    /\ error' = "inference"
    /\ pc' = "input"
    /\ command' = "chat"
    /\ short_term_context' =
           get_short_term_memory_context(message_buffer, short_term_file)
    /\ UNCHANGED <<run, summarize_failed, short_term_limit, long_term_sessions, short_term_file,
                   long_term_file, long_term_context, session_entries>>

\* chat(): the reply is streamed to its end, then both messages are recorded
ChatReply ==
    /\ pc = "input"
    /\ Len(message_buffer) < 2 * MaxTurns
    /\ LET n == Len(message_buffer) \div 2 + 1
           q == "q" \o ToString(n)
           a == "a" \o ToString(n)
       IN  /\ message_buffer' =
                  add_message_buffer(add_message_buffer(message_buffer, "user", q),
                                     "assistant", a)
           /\ message_counter' =
                  add_message_counter(add_message_counter(message_counter, "user"),
                                      "assistant")
    /\ history' = EmptyText
    /\ llm_op' = "chat"
    /\ llm_batch' = <<>>
    /\ error' = "none"
    /\ pc' = "check"
    /\ command' = "chat"
    /\ short_term_context' =
           get_short_term_memory_context(message_buffer, short_term_file)
    /\ UNCHANGED <<run, summarize_failed, short_term_limit, long_term_sessions, short_term_file,
                   long_term_file, long_term_context, session_entries>>

\* chat(): create_chat_completion or the stream raises; run() prints the error
ChatFails ==
    /\ pc = "input"
    /\ history' = EmptyText
    /\ llm_op' = "chat"
    /\ llm_batch' = <<>>
    /\ error' = "inference"
    /\ pc' = "input"
    /\ command' = "chat"
    /\ short_term_context' =
           get_short_term_memory_context(message_buffer, short_term_file)
    /\ UNCHANGED <<run, summarize_failed, short_term_limit, long_term_sessions, message_buffer,
                   message_counter, short_term_file, long_term_file,
                   long_term_context, session_entries>>

\* chat(): should_summarize() is false
CheckBelowThreshold ==
    /\ pc = "check"
    /\ ~should_summarize(message_counter, short_term_limit)
    /\ pc' = "input"
    /\ UNCHANGED <<run, summarize_failed, short_term_limit, long_term_sessions, message_buffer,
                   message_counter, short_term_file, long_term_file,
                   long_term_context, history, llm_op, llm_batch, error,
                   command, short_term_context, session_entries>>

\* chat(): should_summarize() is true; an exception is caught by run()
Summarize ==
    /\ pc = "check"
    /\ should_summarize(message_counter, short_term_limit)
    /\ \E o \in summarize_short_term_memory(message_buffer, message_counter,
                    short_term_file, long_term_file, short_term_limit) :
           /\ WithinBounds(o)
           /\ Apply(o)
           /\ summarize_failed' = (summarize_failed \/ o.raised # "none")
    /\ history' = EmptyText
    /\ pc' = "input"
    /\ UNCHANGED <<run, short_term_limit, long_term_sessions, long_term_context,
                   command, short_term_context>>

Exit_FailureEndsLoop ==
    /\ pc = "input"
    /\ \E o \in save_to_long_term_memory(message_buffer, message_counter,
                    short_term_file, long_term_file) :
           /\ WithinBounds(o)
           /\ Apply(o)
           /\ pc' = IF o.raised = "none" THEN "exited" ELSE "crashed"
    /\ history' = EmptyText
    /\ command' = "/exit"
    /\ short_term_context' = EmptyText
    /\ UNCHANGED <<run, summarize_failed, short_term_limit, long_term_sessions, long_term_context>>

\* run(): /exit; an exception of the save is caught and the loop goes on
Exit ==
    /\ pc = "input"
    /\ \E o \in save_to_long_term_memory(message_buffer, message_counter,
                    short_term_file, long_term_file) :
           /\ WithinBounds(o)
           /\ Apply(o)
           /\ pc' = IF o.raised = "none" THEN "exited" ELSE "input"
    /\ history' = EmptyText
    /\ command' = "/exit"
    /\ short_term_context' = EmptyText
    /\ UNCHANGED <<run, summarize_failed, short_term_limit, long_term_sessions, long_term_context>>

\* run(): /clear
Clear ==
    /\ pc = "input"
    /\ \E o \in clear_short_term_memory(message_buffer, message_counter,
                    short_term_file, long_term_file) :
           Apply(o)
    /\ history' = EmptyText
    /\ command' = "/clear"
    /\ short_term_context' = EmptyText
    /\ pc' = "input"
    /\ UNCHANGED <<run, summarize_failed, short_term_limit, long_term_sessions, long_term_context>>

\* run(): /history
History ==
    /\ pc = "input"
    /\ history' = get_long_term_history(long_term_file)
    /\ llm_op' = "none"
    /\ llm_batch' = <<>>
    /\ error' = "none"
    /\ command' = "/history"
    /\ short_term_context' = EmptyText
    /\ pc' = "input"
    /\ UNCHANGED <<run, summarize_failed, short_term_limit, long_term_sessions, message_buffer,
                   message_counter, short_term_file, long_term_file,
                   long_term_context, session_entries>>

Interrupt_WithoutSave ==
    /\ pc \in {"input", "check"}
    /\ pc' = "interrupted"
    /\ history' = EmptyText
    /\ llm_op' = "none"
    /\ llm_batch' = <<>>
    /\ error' = "none"
    /\ command' = "interrupt"
    /\ short_term_context' = EmptyText
    /\ UNCHANGED <<run, summarize_failed, short_term_limit, long_term_sessions, long_term_context,
                   message_buffer, message_counter, short_term_file,
                   long_term_file, session_entries>>

\* run(): KeyboardInterrupt while waiting for input or inside chat(); the
\* handler saves and breaks; an exception of that save leaves run() and
\* reaches the handler of __main__
Interrupt ==
    /\ pc \in {"input", "check"}
    /\ \E o \in save_to_long_term_memory(message_buffer, message_counter,
                    short_term_file, long_term_file) :
           /\ WithinBounds(o)
           /\ Apply(o)
           /\ pc' = IF o.raised = "none" THEN "interrupted" ELSE "crashed"
    /\ history' = EmptyText
    /\ command' = "interrupt"
    /\ short_term_context' = EmptyText
    /\ UNCHANGED <<run, summarize_failed, short_term_limit, long_term_sessions, long_term_context>>

Next ==
    \/ Startup
    \/ ChatReply
    \/ ChatFails
    \/ CheckBelowThreshold
    \/ Summarize
    \/ Exit
    \/ Clear
    \/ History
    \/ Interrupt

Spec == Init /\ [][Next]_vars

-----------------------------------------------------------------------------
(* The MemoryManager driven directly: its methods called in any order *)

Roles == { "user", "assistant", "system" }

\* MemoryManager(config_path) on each memory directory of InitialFiles
InitApi ==
    /\ pc = "api"
    /\ run = 1
    /\ short_term_limit \in 1..MaxLimit
    /\ long_term_sessions \in 0..MaxCap
    /\ message_buffer = <<>>
    /\ message_counter = 0
    /\ short_term_file \in { _ensure_short_term(f) : f \in InitialFiles }
    /\ long_term_file \in { _ensure_long_term(f) : f \in InitialFiles }
    /\ long_term_context = EmptyText
    /\ history = EmptyText
    /\ llm_op = "none"
    /\ llm_batch = <<>>
    /\ error = "none"
    /\ command = "none"
    /\ short_term_context = EmptyText
    /\ session_entries = 0
    /\ summarize_failed = FALSE

ApiFrame ==
    /\ history' = EmptyText
    /\ UNCHANGED <<pc, run, summarize_failed, short_term_limit, long_term_sessions, long_term_context,
                   command, short_term_context>>

ApiAddMessage ==
    /\ pc = "api"
    /\ Len(message_buffer) < MaxTurns
    /\ \E role \in Roles :
           /\ message_buffer' = add_message_buffer(message_buffer, role, "m")
           /\ message_counter' = add_message_counter(message_counter, role)
    /\ llm_op' = "none"
    /\ llm_batch' = <<>>
    /\ error' = "none"
    /\ UNCHANGED <<short_term_file, long_term_file, session_entries>>
    /\ ApiFrame

ApiSummarize ==
    /\ pc = "api"
    /\ \E o \in summarize_short_term_memory(message_buffer, message_counter,
                    short_term_file, long_term_file, short_term_limit) :
           WithinBounds(o) /\ Apply(o)
    /\ ApiFrame

ApiSave ==
    /\ pc = "api"
    /\ \E o \in save_to_long_term_memory(message_buffer, message_counter,
                    short_term_file, long_term_file) :
           WithinBounds(o) /\ Apply(o)
    /\ ApiFrame

ApiClear ==
    /\ pc = "api"
    /\ \E o \in clear_short_term_memory(message_buffer, message_counter,
                    short_term_file, long_term_file) :
           Apply(o)
    /\ ApiFrame

NextApi ==
    \/ ApiAddMessage
    \/ ApiSummarize
    \/ ApiSave
    \/ ApiClear

SpecApi == InitApi /\ [][NextApi]_vars

-----------------------------------------------------------------------------
(* The long-term store under any summary text: the write of                *)
(* save_to_long_term_memory and the readers of the file                    *)

\* Texts the inference engine may return for a session: plain, empty,
\* surrounded by blank lines, holding a line of 60 '=' or a line that reads
\* as a session marker
AnySummaries ==
    { <<"trends">>, <<"">>, <<"", "trends", "">>,
      <<"a", Equals60, "b">>, <<"a", SessionMarker, "b">> }

\* a file of one line break
BlankText == <<"", "">>

\* open(file, 'a') and the writes of text: an absent file is created
AppendTo(file, text) == Concat(IF Exists(file) THEN file ELSE EmptyText, text)

\* MemoryManager(config_path) on each memory directory of InitialFiles, and
\* on one whose long-term file holds a line break only
InitStore ==
    /\ pc = "store"
    /\ run = 1
    /\ short_term_limit = 1
    /\ long_term_sessions \in 0..MaxCap
    /\ message_buffer = <<>>
    /\ message_counter = 0
    /\ short_term_file = ShortTermHeader
    /\ long_term_file \in { _ensure_long_term(f) : f \in InitialFiles \cup {BlankText} }
    /\ long_term_context = EmptyText
    /\ history = EmptyText
    /\ llm_op = "none"
    /\ llm_batch = <<>>
    /\ error = "none"
    /\ command = "none"
    /\ short_term_context = EmptyText
    /\ session_entries = 0
    /\ summarize_failed = FALSE

StoreFrame ==
    UNCHANGED <<pc, run, summarize_failed, short_term_limit, long_term_sessions, message_buffer,
                message_counter, short_term_file, llm_batch,
                short_term_context>>

\* the three writes to long_term_file of save_to_long_term_memory
StoreWrite ==
    /\ pc = "store"
    /\ session_entries < MaxEntries
    /\ \E summary \in AnySummaries :
           long_term_file' = AppendTo(long_term_file, LongTermEntry(summary))
    /\ session_entries' = session_entries + 1
    /\ llm_op' = "consolidate"
    /\ error' = "none"
    /\ command' = "write"
    /\ UNCHANGED <<long_term_context, history>>
    /\ StoreFrame

\* the writes of save_to_long_term_memory cut short: the marker line and the
\* summary reach the file, the closing line does not (the disk fills, the
\* process is killed)
StoreWriteCutShort ==
    /\ pc = "store"
    /\ session_entries < MaxEntries
    /\ \E summary \in AnySummaries :
           long_term_file' =
               AppendTo(long_term_file, <<"", SessionMarker>> \o summary \o <<"">>)
    /\ session_entries' = session_entries + 1
    /\ llm_op' = "consolidate"
    /\ error' = "io"
    /\ command' = "write cut short"
    /\ UNCHANGED <<long_term_context, history>>
    /\ StoreFrame

\* load_long_term_memory_context()
StoreLoad ==
    /\ pc = "store"
    /\ long_term_context' =
           load_long_term_memory_context(long_term_file, long_term_sessions)
    /\ llm_op' = "none"
    /\ error' = "none"
    /\ command' = "load"
    /\ UNCHANGED <<long_term_file, history, session_entries>>
    /\ StoreFrame

\* get_long_term_history()
StoreHistory ==
    /\ pc = "store"
    /\ history' = get_long_term_history(long_term_file)
    /\ llm_op' = "none"
    /\ error' = "none"
    /\ command' = "/history"
    /\ UNCHANGED <<long_term_file, long_term_context, session_entries>>
    /\ StoreFrame

\* the long-term file is deleted from the memory directory while the
\* MemoryManager lives: the state the exists() tests of the readers are for
StoreRemoved ==
    /\ pc = "store"
    /\ Exists(long_term_file)
    /\ long_term_file' = NoFile
    /\ llm_op' = "none"
    /\ error' = "none"
    /\ command' = "removed"
    /\ UNCHANGED <<long_term_context, history, session_entries>>
    /\ StoreFrame

NextStore ==
    \/ StoreWrite
    \/ StoreWriteCutShort
    \/ StoreLoad
    \/ StoreHistory
    \/ StoreRemoved

SpecStore == InitStore /\ [][NextStore]_vars

-----------------------------------------------------------------------------
(* Vocabulary of the properties *)

Min(a, b) == IF a <= b THEN a ELSE b

\* a short-term store: its two header lines, then at least one summary entry
HoldsSummaryBelowHeader(file) ==
    /\ Len(file) >= 2
    /\ SubSeq(file, 1, 2) = SubSeq(ShortTermHeader, 1, 2)
    /\ CountSummaries(file) >= 1

\* a short-term store that is empty, blank, or its header alone
EmptyOrHeaderOnly(file) ==
    \/ Strip(file) = EmptyText
    \/ file = ShortTermHeader

\* the step is the construction of the next process
IsStartup == pc \in {"off", "exited", "interrupted", "crashed"} /\ pc' = "input"

\* the step is a session end: /exit or an interrupt
IsSessionEnd ==
    \/ pc = "input" /\ pc' = "exited"
    \/ pc = "input" /\ pc' = "input" /\ llm_op' = "consolidate"
    \/ pc \in {"input", "check"} /\ pc' \in {"interrupted", "crashed"}

\* the buffer is (user, assistant) pairs, each reply after its own question
IsTurns(buffer) ==
    /\ Len(buffer) % 2 = 0
    /\ \A i \in 1..Len(buffer) :
           IF i % 2 = 1
           THEN buffer[i].role = "user"
           ELSE /\ buffer[i].role = "assistant"
                /\ buffer[i - 1].role = "user"

\* every assistant reply of the batch comes right after the user message it answers
RepliesWithQuestions(batch) ==
    \A i \in 1..Len(batch) :
        batch[i].role = "assistant" =>
            /\ i > 1
            /\ batch[i - 1].role = "user"

\* the context ends with a session entry whose text, between a marker line
\* and the closing line, is the summary up to surrounding blank lines
Recovers(context, summary) ==
    LET n == Len(context)
    IN  /\ n >= 5
        /\ SubSeq(context, n - 2, n) = <<Equals60, "", "">>
        /\ \E k \in 1..(n - 3) :
               /\ IsSessionMarker(context[k])
               /\ Strip(SubSeq(context, k + 1, n - 3)) = Strip(summary)

\* every marker line of the text is followed by a closing line before the
\* next marker line and before the end of the text
RECURSIVE EntriesClosed(_, _)
EntriesClosed(lines, open) ==
    IF lines = <<>> THEN ~open
    ELSE IF IsSessionMarker(Head(lines))
         THEN ~open /\ EntriesClosed(Tail(lines), TRUE)
         ELSE IF IsClosingLine(Head(lines))
              THEN EntriesClosed(Tail(lines), FALSE)
              ELSE EntriesClosed(Tail(lines), open)

\* a long-term store that is empty, blank, or its header alone
NoSessionEntries(file) ==
    \/ Strip(file) = EmptyText
    \/ file = LongTermHeader

\* the step fails inside the memory subsystem: in the summarization of a
\* chat turn, in the save of /exit, or in /clear
IsMemoryFailure ==
    /\ error' # "none"
    /\ \/ pc = "check" /\ command' = "chat" /\ llm_op' = "summarize"
       \/ command' = "/exit"
       \/ command' = "/clear"

\* the step fails writing a store during a summarization or a consolidation
IsStoreWriteFailure ==
    /\ error' = "io"
    /\ llm_op' \in {"summarize", "consolidate"}

\* the step ran save_to_long_term_memory: its effect is one of the call's outcomes
RanConsolidation ==
    \E o \in save_to_long_term_memory(message_buffer, message_counter,
                  short_term_file, long_term_file) :
        /\ message_buffer' = o.buffer
        /\ message_counter' = o.counter
        /\ short_term_file' = o.st
        /\ long_term_file' = o.lt
        /\ llm_op' = o.op
        /\ error' = o.raised

-----------------------------------------------------------------------------
(* Properties *)

\* C1: whenever /exit's save_to_long_term_memory returns while the short-term
\* store holds its two header lines and at least one summary entry, the
\* short-term store is header-only afterwards and the long-term store holds
\* exactly one more entry than before.
C1_ConsolidationWritesEntry ==
    [][ (pc = "input" /\ pc' = "exited" /\ HoldsSummaryBelowHeader(short_term_file))
        => /\ short_term_file' = ShortTermHeader
           /\ CountMarkers(long_term_file') = CountMarkers(long_term_file) + 1 ]_vars

\* C2: when the first run ends with /exit after a short-term summary was
\* written (it is still in the short-term store, or the save consolidated it),
\* the context the second run loads at startup is non-empty and holds a
\* session entry, given long_term_sessions >= 1.
C2_NextSessionSeesSummary ==
    [][ ( /\ pc = "exited"
          /\ run = 1
          /\ long_term_sessions >= 1
          /\ (CountSummaries(short_term_file) >= 1 \/ llm_op = "consolidate")
          /\ pc' = "input" )
        => /\ long_term_context' # EmptyText
           /\ CountMarkers(long_term_context') >= 1 ]_vars

\* C3: at startup, over a long-term store of K entries and a cap C >= 0, the
\* loaded context holds exactly the last min(K, C) entries, in their order
\* (the empty string when there are none).
C3_LoadsMinOfEntriesAndCap ==
    [][ IsStartup =>
          LET sessions == ParseSessions(long_term_file', <<>>, <<>>, FALSE)
              K == Len(sessions)
              n == Min(K, long_term_sessions)
              expected == SubSeq(sessions, K - n + 1, K)
          IN  long_term_context' =
                  IF expected = <<>> THEN EmptyText ELSE FormatContext(expected) ]_vars

\* C4: a step of chat() in which summarize_short_term_memory made its inference
\* call and returned normally leaves the buffer empty, the counter 0 and the
\* short-term store with exactly one more entry.
C4_SummarizationClearsAndAppends ==
    [][ (pc = "check" /\ pc' = "input" /\ llm_op' = "summarize" /\ error' = "none")
        => /\ message_buffer' = <<>>
           /\ message_counter' = 0
           /\ CountSummaries(short_term_file') = CountSummaries(short_term_file) + 1 ]_vars

C4_Witness ==
    /\ pc = "input"
    /\ llm_op = "summarize"
    /\ error = "none"
    /\ CountSummaries(short_term_file) = 2

\* C5: in every state reached by any sequence of add_message,
\* summarize_short_term_memory, save_to_long_term_memory and
\* clear_short_term_memory, failing calls included, message_counter is the
\* number of user messages in message_buffer.
C5_CounterCountsUserMessages == message_counter = UserCount(message_buffer)

C5_Witness ==
    /\ pc = "api"
    /\ error = "io"
    /\ message_counter = 1
    /\ Len(message_buffer) = 3

\* C6: at the threshold check of chat(), with fewer user messages in the buffer
\* than short_term_limit no summarization is made and nothing changes; with
\* short_term_limit or more the summarization is invoked.
C6_ThresholdCheck ==
    [][ (pc = "check" /\ pc' = "input")
        => IF UserCount(message_buffer) >= short_term_limit
           THEN llm_op' = "summarize"
           ELSE /\ llm_op' # "summarize"
                /\ UNCHANGED <<message_buffer, message_counter, short_term_file,
                               long_term_file, short_term_limit>> ]_vars

C6_Witness ==
    /\ pc = "input"
    /\ llm_op = "summarize"
    /\ short_term_limit = 2
    /\ Len(llm_batch) = 2

\* C7: a session end (/exit or interrupt) on an empty, blank or header-only
\* short-term store leaves the long-term store as it was and makes no
\* inference call.
C7_ConsolidationOfNothing ==
    [][ (IsSessionEnd /\ EmptyOrHeaderOnly(short_term_file))
        => /\ long_term_file' = long_term_file
           /\ llm_op' = "none" ]_vars

C7_Witness ==
    /\ pc = "exited"
    /\ short_term_file = ShortTermHeader
    /\ llm_op = "none"
    /\ message_buffer # <<>>

\* C8 as stated: when the session ends with messages in the buffer, those
\* messages are summarized into the short-term store before the buffer is
\* emptied.
C8_BufferDrainedAtSessionEnd ==
    [][ (IsSessionEnd /\ message_buffer # <<>>)
        => /\ llm_batch' = message_buffer
           /\ CountSummaries(short_term_file') > 0 ]_vars

\* C8 amended: a session end never summarizes the buffer: it makes no
\* summarization call and adds no entry to the short-term store, and it leaves
\* the buffer either as it was or empty.
C8_BufferNotSummarizedAtSessionEnd ==
    [][ IsSessionEnd
        => /\ llm_op' # "summarize"
           /\ llm_batch' = <<>>
           /\ CountSummaries(short_term_file') <= CountSummaries(short_term_file)
           /\ message_buffer' \in { message_buffer, <<>> } ]_vars

C8_Witness ==
    /\ pc = "interrupted"
    /\ message_buffer # <<>>
    /\ message_counter < short_term_limit
    /\ CountSummaries(short_term_file) >= 1

\* C9: the batch a summarization selects holds an assistant reply only
\* together with the user message it answers.
C9_BatchKeepsTurnsWhole == llm_op = "summarize" => RepliesWithQuestions(llm_batch)

\* C10: at every threshold check and wherever the loop waits for input the
\* buffer is a concatenation of (user, assistant) pairs; a chat turn whose
\* inference fails records nothing.
C10_BufferIsWholeTurns == pc \in {"input", "check"} => IsTurns(message_buffer)

C10_Witness ==
    /\ pc = "input"
    /\ llm_op = "chat"
    /\ error = "inference"
    /\ Len(message_buffer) = 2

\* C11: when a chat turn builds its prompt with an empty buffer, the short-term
\* context is the short-term store's file content, non-empty, if the store
\* holds at least one summary entry, and the empty string if the store is
\* empty or header-only.
C11_EmptyBufferFallsBackToStore ==
    [][ (pc = "input" /\ command' = "chat" /\ message_buffer = <<>>)
        => /\ CountSummaries(short_term_file) >= 1
                  => /\ short_term_context' = short_term_file
                     /\ short_term_context' # EmptyText
           /\ EmptyOrHeaderOnly(short_term_file)
                  => short_term_context' = EmptyText ]_vars

\* C12: for every summary text, once its entry is appended to the long-term
\* store, load_long_term_memory_context with a cap of at least 1 returns a
\* context whose last entry holds that summary text, up to surrounding
\* whitespace.
C12_RoundTrip ==
    [][ \A summary \in AnySummaries :
          ( /\ command' = "write"
            /\ long_term_sessions >= 1
            /\ long_term_file' = AppendTo(long_term_file, LongTermEntry(summary)) )
          => Recovers(load_long_term_memory_context(long_term_file',
                                                    long_term_sessions),
                      summary) ]_vars

\* C13: /history prints the long-term store's content verbatim whenever the
\* store holds at least one session entry.
C13_HistoryIsStoreVerbatim ==
    [][ (command' = "/history" /\ CountMarkers(long_term_file) >= 1)
        => history' = long_term_file ]_vars

\* C14: get_long_term_history on a long-term store without entries returns
\* "No long-term memory found." when the file is absent and
\* "No previous session summaries found." when the file is empty, blank or
\* header-only; it raises nothing and leaves the store as it was.
C14_SentinelsOfEmptyStore ==
    [][ (command' = "/history" /\ (~Exists(long_term_file) \/ NoSessionEntries(long_term_file)))
        => /\ history' = IF ~Exists(long_term_file)
                         THEN <<"No long-term memory found.">>
                         ELSE <<"No previous session summaries found.">>
           /\ error' = "none"
           /\ long_term_file' = long_term_file ]_vars

C14_Witness ==
    /\ command = "/history"
    /\ ~Exists(long_term_file)
    /\ history = <<"No long-term memory found.">>
    /\ session_entries >= 1

\* C15: a /clear that returns, from any buffer and any short-term store,
\* leaves the buffer empty, the counter 0 and the short-term store header-only,
\* and leaves the long-term store as it was.
C15_ClearResetsSession ==
    [][ (command' = "/clear" /\ error' = "none")
        => /\ message_buffer' = <<>>
           /\ message_counter' = 0
           /\ short_term_file' = ShortTermHeader
           /\ long_term_file' = long_term_file ]_vars

C15_Witness ==
    /\ command = "/clear"
    /\ error = "none"
    /\ short_term_file = ShortTermHeader
    /\ CountMarkers(long_term_file) >= 1
    /\ session_entries = 0

\* C16: when the inference call of a chat turn's summarization raises or
\* returns empty text, the short-term store is left as it was or gets one
\* entry with an empty summary, and the buffer is empty and the counter 0
\* afterwards, so that should_summarize is false.
C16_FailedSummarizationClearsBuffer ==
    [][ ( /\ pc = "check"
          /\ llm_op' = "summarize"
          /\ \/ error' = "inference"
             \/ short_term_file' = Concat(short_term_file, ShortTermEntry(EmptyText)) )
        => /\ short_term_file' \in
                  { short_term_file,
                    Concat(short_term_file, ShortTermEntry(EmptyText)) }
           /\ message_buffer' = <<>>
           /\ message_counter' = 0
           /\ ~should_summarize(message_counter', short_term_limit) ]_vars

\* C17 as stated: when a store write fails during a summarization or a
\* consolidation, buffer and counter are left as they were and the loop goes
\* on to wait for input.
C17_WriteFailureKeepsBufferAndLoop ==
    [][ IsStoreWriteFailure
        => /\ UNCHANGED <<message_buffer, message_counter>>
           /\ pc' = "input" ]_vars

\* C17 amended: when a store write fails during a summarization or a
\* consolidation, buffer and counter are left as they were; the loop goes on
\* to wait for input unless the save was made by the interrupt handler, where
\* the process ends.
C17_WriteFailureKeepsBuffer ==
    [][ IsStoreWriteFailure
        => /\ UNCHANGED <<message_buffer, message_counter>>
           /\ pc' = IF command' = "interrupt" THEN "crashed" ELSE "input" ]_vars

C17_Witness ==
    /\ pc = "input"
    /\ command = "chat"
    /\ llm_op = "summarize"
    /\ error = "io"
    /\ message_buffer # <<>>
    /\ message_counter >= short_term_limit

\* C18: after an inference or I/O failure inside a chat turn's summarization,
\* inside the save of /exit or inside /clear, the loop waits for the next
\* input.
C18_MemoryFailureKeepsLoop == [][ IsMemoryFailure => pc' = "input" ]_vars

C18_Witness ==
    /\ pc = "input"
    /\ command = "/exit"
    /\ error = "io"
    /\ session_entries = 1

\* C19: an interrupt, while the loop waits for input or during a chat turn,
\* runs save_to_long_term_memory and ends the loop; if the save raises the
\* process ends, and in neither case is there another step of that process.
C19_InterruptSavesThenEnds ==
    [][ /\ command' = "interrupt"
           => /\ pc \in {"input", "check"}
              /\ RanConsolidation
              /\ ~NoMeaningfulContent(short_term_file) => llm_op' = "consolidate"
              /\ pc' = IF error' = "none" THEN "interrupted" ELSE "crashed"
        /\ pc \in {"interrupted", "crashed"} => command' = "start" ]_vars

C19_Witness ==
    /\ pc = "crashed"
    /\ command = "interrupt"
    /\ llm_op = "consolidate"
    /\ error = "inference"

\* C20: a process appends at most one entry to the long-term store.
C20_AtMostOneEntryPerSession == session_entries <= 1

C22_UnclosedEntriesAreDropped ==
    [][ (command' = "load" /\ long_term_sessions >= 1)
        => /\ EntriesClosed(long_term_context', FALSE)
           /\ error' = "none"
           /\ (~Exists(long_term_file) \/ NoSessionEntries(long_term_file))
                  => long_term_context' = EmptyText ]_vars

C24_BufferBelowThresholdAtInput ==
    (pc = "input" /\ ~summarize_failed)
    => /\ message_counter < short_term_limit
       /\ Len(message_buffer) < 2 * short_term_limit

C24_Witness ==
    /\ pc = "input"
    /\ ~summarize_failed
    /\ short_term_limit = 2
    /\ message_counter = 1
    /\ CountSummaries(short_term_file) >= 1

====
